---- MODULE Spec2Model ----
(***************************************************************************)
(* Model of the account-ledger service of src/main.go: the two HTTP        *)
(* handlers handleTransactions and handleTransactionLog running as         *)
(* concurrent requests against one shared PostgreSQL store (tables         *)
(* clientes and transacoes).                                               *)
(*                                                                         *)
(* Every store round trip of a handler (Exec, Query, QueryRow) is one      *)
(* atomic step; the handler code between two round trips is local and is   *)
(* folded into the step that follows it.                                   *)
(***************************************************************************)
EXTENDS Integers, Sequences, FiniteSets, TLC

VARIABLES clientes, transacoes, now, pc, req, status, resp, cursor, extrato,
          postApply, dbCalls, fault

vars == <<clientes, transacoes, now, pc, req, status, resp, cursor, extrato,
          postApply, dbCalls, fault>>

(***************************************************************************)
(* Bounds of the model.                                                    *)
(***************************************************************************)
NumReqs == 3
MaxTime == 2
MaxRows == 11
MaxWrites == 2
MaxCut == 1

Reqs == 1..NumReqs

(***************************************************************************)
(* Strings.  A string is the sequence of its code points, each code point  *)
(* represented by the number of bytes of its UTF-8 encoding ("a" is 1,     *)
(* "é" is 2).                                                              *)
(***************************************************************************)
Rep(n, w) == [i \in 1..n |-> w]

RECURSIVE ByteLen(_)
ByteLen(s) == IF s = <<>> THEN 0 ELSE Head(s) + ByteLen(Tail(s))

RuneCountInStringBytes(s) == ByteLen(s)

RuneCountInString(s) == Len(s)

(***************************************************************************)
(* clientExists: the provisioned set is the numeric range 1..5.            *)
(***************************************************************************)
clientExistsOffByOne(id) == id >= 0 /\ id <= 5

clientExists(id) == id > 0 /\ id <= 5

(***************************************************************************)
(* Seed data of table clientes (not part of the request flow).             *)
(***************************************************************************)
ClientIds == 1..5

SeedLimite == [i \in ClientIds |-> CASE i = 1 -> 1000
                                     [] i = 2 -> 800
                                     [] i = 3 -> 10000
                                     [] i = 4 -> 100000
                                     [] OTHER -> 5000]

SeedClientes == [i \in ClientIds |-> [limite |-> SeedLimite[i], saldo |-> 0]]

(***************************************************************************)
(* json.Unmarshal of the request body into TransacaoRequest.  A raw body   *)
(* is [valorKind, valor, tipo, descricao]; a "valor" that is not a JSON    *)
(* integer ("frac", e.g. 1.5) cannot be stored in the int field and makes  *)
(* Unmarshal fail; Valor is an int, so zero and negative integers decode.  *)
(***************************************************************************)
NoTransaction == [Valor |-> 0, Tipo |-> "", Descricao |-> <<>>]

Unmarshal(body) ==
    IF body.valorKind = "int"
    THEN [err |-> FALSE,
          v |-> [Valor |-> body.valor, Tipo |-> body.tipo,
                 Descricao |-> body.descricao]]
    ELSE [err |-> TRUE, v |-> NoTransaction]

(***************************************************************************)
(* The validation of handleTransactions between Unmarshal and the INSERT:  *)
(* description of 1..10 code points and type "c" or "d".  The amount is    *)
(* not looked at.                                                          *)
(***************************************************************************)
ValidateRequestOr(body) ==
    LET u == Unmarshal(body)
        length == RuneCountInString(u.v.Descricao)
    IN  IF u.err THEN FALSE
        ELSE IF length > 10 \/ length < 1 THEN FALSE
        ELSE IF u.v.Tipo # "c" \/ u.v.Tipo # "d" THEN FALSE
        ELSE TRUE

ValidateRequest(body) ==
    LET u == Unmarshal(body)
        length == RuneCountInString(u.v.Descricao)
    IN  IF u.err THEN FALSE
        ELSE IF length > 10 \/ length < 1 THEN FALSE
        ELSE IF u.v.Tipo # "c" /\ u.v.Tipo # "d" THEN FALSE
        ELSE TRUE

(***************************************************************************)
(* The arguments bound to the INSERT statement.                            *)
(***************************************************************************)
InsertArgsNegated(clientId, transaction) ==
    [valor |-> 0 - transaction.Valor, tipo |-> transaction.Tipo,
     descricao |-> transaction.Descricao, cliente_id |-> clientId]

InsertArgs(clientId, transaction) ==
    [valor |-> transaction.Valor, tipo |-> transaction.Tipo,
     descricao |-> transaction.Descricao, cliente_id |-> clientId]

(***************************************************************************)
(* The store's atomic apply behind INSERT INTO transacoes: signed delta,   *)
(* limit check for debits, balance update and row insert as one unit.      *)
(***************************************************************************)
SignedDelta(tipo, valor) == IF tipo = "c" THEN valor ELSE 0 - valor

ApplyTransactionRowOnly(cl, txs, args, t) ==
    IF args.cliente_id \notin DOMAIN cl
    THEN [err |-> "NotFound", clientes |-> cl, transacoes |-> txs]
    ELSE [err |-> "", clientes |-> cl,
          transacoes |-> Append(txs,
              [id |-> Len(txs) + 1, valor |-> args.valor,
               tipo |-> args.tipo, descricao |-> args.descricao,
               cliente_id |-> args.cliente_id, realizada_em |-> t])]

ApplyTransactionWrongColumn(cl, txs, args, t) ==
    IF args.cliente_id \notin DOMAIN cl
    THEN [err |-> "NotFound", clientes |-> cl, transacoes |-> txs]
    ELSE LET newBalance == cl[args.cliente_id].saldo
                             + SignedDelta(args.tipo, args.valor)
         IN  IF args.tipo = "d" /\ newBalance < 0 - cl[args.cliente_id].limite
             THEN [err |-> "LimitExceeded", clientes |-> cl,
                   transacoes |-> txs]
             ELSE [err |-> "",
                   clientes |-> [cl EXCEPT
                                   ![args.cliente_id].limite = newBalance],
                   transacoes |-> Append(txs,
                       [id |-> Len(txs) + 1, valor |-> args.valor,
                        tipo |-> args.tipo, descricao |-> args.descricao,
                        cliente_id |-> args.cliente_id, realizada_em |-> t])]

ApplyTransaction(cl, txs, args, t) ==
    IF args.cliente_id \notin DOMAIN cl
    THEN [err |-> "NotFound", clientes |-> cl, transacoes |-> txs]
    ELSE LET newBalance == cl[args.cliente_id].saldo
                             + SignedDelta(args.tipo, args.valor)
         IN  IF args.tipo = "d" /\ newBalance < 0 - cl[args.cliente_id].limite
             THEN [err |-> "LimitExceeded", clientes |-> cl,
                   transacoes |-> txs]
             ELSE [err |-> "",
                   clientes |-> [cl EXCEPT
                                   ![args.cliente_id].saldo = newBalance],
                   transacoes |-> Append(txs,
                       [id |-> Len(txs) + 1, valor |-> args.valor,
                        tipo |-> args.tipo, descricao |-> args.descricao,
                        cliente_id |-> args.cliente_id, realizada_em |-> t])]

(***************************************************************************)
(* What handleTransactions does with the error of Exec: any error ends     *)
(* the request with 422, no error lets it go on to the balance read        *)
(* (0 = no status yet).                                                    *)
(***************************************************************************)
ExecStatusIgnoreErr(err) == 0

ExecStatus(err) == IF err # "" THEN 422 ELSE 0

(***************************************************************************)
(* SELECT limite, saldo from clientes where id = $1, scanned into Balance. *)
(***************************************************************************)
ScanBalanceSwapped(cl, clientId) ==
    [Limite |-> cl[clientId].saldo, Saldo |-> cl[clientId].limite]

ScanBalance(cl, clientId) ==
    [Limite |-> cl[clientId].limite, Saldo |-> cl[clientId].saldo]

NoBody == [Limite |-> 0, Saldo |-> 0]

NoExtrato == [Total |-> 0, Limite |-> 0, DataExtrato |-> 0,
              UltimasTransacoes |-> <<>>]

NoReq == [kind |-> "", id |-> 0,
          body |-> [valorKind |-> "int", valor |-> 0, tipo |-> "",
                    descricao |-> <<>>]]

(***************************************************************************)
(* Initial state: seeded clients, no transactions, no request received.    *)
(***************************************************************************)
Init ==
    /\ clientes = SeedClientes
    /\ transacoes = <<>>
    /\ now = 1
    /\ pc = [r \in Reqs |-> "idle"]
    /\ req = [r \in Reqs |-> NoReq]
    /\ status = [r \in Reqs |-> 0]
    /\ resp = [r \in Reqs |-> NoBody]
    /\ cursor = [r \in Reqs |-> <<>>]
    /\ extrato = [r \in Reqs |-> NoExtrato]
    /\ postApply = [r \in Reqs |-> 0]
    /\ dbCalls = 0
    /\ fault = [r \in Reqs |-> FALSE]

(***************************************************************************)
(* handleTransactions, from the start of the handler to the return of      *)
(* Exec: existence check, Unmarshal, validation, INSERT.                   *)
(***************************************************************************)
Finish(r, id, body, st) ==
    /\ pc' = [pc EXCEPT ![r] = "done"]
    /\ req' = [req EXCEPT ![r] = [kind |-> "tx", id |-> id, body |-> body]]
    /\ status' = [status EXCEPT ![r] = st]

handleTransactions(r, id, body) ==
    /\ pc[r] = "idle"
    /\ UNCHANGED fault
    /\ IF ~clientExists(id)
       THEN /\ Finish(r, id, body, 404)
            /\ UNCHANGED <<clientes, transacoes, now, resp, cursor,
                           extrato, postApply, dbCalls>>
       ELSE IF ~ValidateRequest(body)
       THEN /\ Finish(r, id, body, 422)
            /\ UNCHANGED <<clientes, transacoes, now, resp, cursor,
                           extrato, postApply, dbCalls>>
       ELSE LET res == ApplyTransaction(clientes, transacoes,
                           InsertArgs(id, Unmarshal(body).v), now)
                st == ExecStatus(res.err)
            IN  /\ clientes' = res.clientes
                /\ transacoes' = res.transacoes
                /\ dbCalls' = dbCalls + 1
                /\ postApply' = [postApply EXCEPT ![r] =
                                   IF res.err = ""
                                   THEN res.clientes[id].saldo ELSE 0]
                /\ IF st # 0
                   THEN Finish(r, id, body, st)
                   ELSE /\ pc' = [pc EXCEPT ![r] = "inserted"]
                        /\ req' = [req EXCEPT ![r] =
                                    [kind |-> "tx", id |-> id, body |-> body]]
                        /\ UNCHANGED status
                /\ UNCHANGED <<now, resp, cursor, extrato>>

(***************************************************************************)
(* handleTransactions, the balance read after the INSERT and the response. *)
(***************************************************************************)
handleTransactionsRead(r) ==
    /\ pc[r] = "inserted"
    /\ UNCHANGED fault
    /\ resp' = [resp EXCEPT ![r] = ScanBalance(clientes, req[r].id)]
    /\ status' = [status EXCEPT ![r] = 200]
    /\ pc' = [pc EXCEPT ![r] = "done"]
    /\ dbCalls' = dbCalls + 1
    /\ UNCHANGED <<clientes, transacoes, now, req, cursor, extrato,
                   postApply>>

(***************************************************************************)
(* The store's clock, which stamps realizada_em.                           *)
(***************************************************************************)
Tick ==
    /\ now < MaxTime
    /\ now' = now + 1
    /\ UNCHANGED <<clientes, transacoes, pc, req, status, resp, cursor,
                   extrato, postApply, dbCalls, fault>>

(***************************************************************************)
(* SELECT ... FROM transacoes WHERE cliente_id = $1 ORDER BY realizada_em  *)
(* DESC LIMIT 10.  The statement names no second sort key, so the order of *)
(* rows with equal realizada_em is the store's choice: peers is the order  *)
(* it happens to produce them in, by insertion ascending or descending.    *)
(***************************************************************************)
LimitRows == 10

PeerOrders == {"asc", "desc"}

Before(a, b, peers) ==
    \/ a.realizada_em > b.realizada_em
    \/ /\ a.realizada_em = b.realizada_em
       /\ IF peers = "desc" THEN a.id > b.id ELSE a.id < b.id

RECURSIVE InsertSorted(_, _, _)
InsertSorted(row, s, peers) ==
    IF s = <<>> THEN <<row>>
    ELSE IF Before(row, Head(s), peers) THEN <<row>> \o s
    ELSE <<Head(s)>> \o InsertSorted(row, Tail(s), peers)

RECURSIVE OrderByRealizadaEmDesc(_, _)
OrderByRealizadaEmDesc(s, peers) ==
    IF s = <<>> THEN <<>>
    ELSE InsertSorted(Head(s), OrderByRealizadaEmDesc(Tail(s), peers), peers)

WhereAnyCliente(txs, clientId) == txs

WhereCliente(txs, clientId) ==
    SelectSeq(txs, LAMBDA row : row.cliente_id = clientId)

SelectRecent(txs, clientId, peers) ==
    LET sorted == OrderByRealizadaEmDesc(WhereCliente(txs, clientId), peers)
    IN  SubSeq(sorted, 1, IF Len(sorted) < LimitRows THEN Len(sorted)
                          ELSE LimitRows)

(***************************************************************************)
(* rows.Scan of one result row into Transacao.                             *)
(***************************************************************************)
ScanRow(row) ==
    [Valor |-> row.valor, Tipo |-> row.tipo, Descricao |-> row.descricao,
     RealizadaEm |-> row.realizada_em]

(***************************************************************************)
(* handleTransactionLog, from the start of the handler to the return of    *)
(* Query: existence check, then the query of the recent transactions.      *)
(***************************************************************************)
handleTransactionLog(r, id, peers) ==
    /\ pc[r] = "idle"
    /\ req' = [req EXCEPT ![r] = [NoReq EXCEPT !.kind = "log", !.id = id]]
    /\ IF ~clientExists(id)
       THEN /\ pc' = [pc EXCEPT ![r] = "done"]
            /\ status' = [status EXCEPT ![r] = 404]
            /\ UNCHANGED <<cursor, dbCalls>>
       ELSE /\ pc' = [pc EXCEPT ![r] = "queried"]
            /\ cursor' = [cursor EXCEPT ![r] =
                            SelectRecent(transacoes, id, peers)]
            /\ dbCalls' = dbCalls + 1
            /\ UNCHANGED status
    /\ UNCHANGED <<clientes, transacoes, now, resp, extrato, postApply,
                   fault>>

(***************************************************************************)
(* handleTransactionLog, the balance read, the scan of the result rows and *)
(* the response.                                                           *)
(***************************************************************************)
handleTransactionLogBalance(r) ==
    /\ pc[r] = "queried"
    /\ extrato' = [extrato EXCEPT ![r] =
           [Total |-> clientes[req[r].id].saldo,
            Limite |-> clientes[req[r].id].limite,
            DataExtrato |-> now,
            UltimasTransacoes |->
                [i \in 1..Len(cursor[r]) |-> ScanRow(cursor[r][i])]]]
    /\ status' = [status EXCEPT ![r] = 200]
    /\ pc' = [pc EXCEPT ![r] = "done"]
    /\ dbCalls' = dbCalls + 1
    /\ UNCHANGED <<clientes, transacoes, now, req, resp, cursor, postApply,
                   fault>>

(***************************************************************************)
(* The server takes the next request once a response has been sent.        *)
(***************************************************************************)
Recycle(r) ==
    /\ pc[r] = "done"
    /\ Len(transacoes) < MaxRows
    /\ pc' = [pc EXCEPT ![r] = "idle"]
    /\ req' = [req EXCEPT ![r] = NoReq]
    /\ status' = [status EXCEPT ![r] = 0]
    /\ resp' = [resp EXCEPT ![r] = NoBody]
    /\ postApply' = [postApply EXCEPT ![r] = 0]
    /\ fault' = [fault EXCEPT ![r] = FALSE]
    /\ UNCHANGED <<clientes, transacoes, now, cursor, extrato, dbCalls>>

(***************************************************************************)
(* Storage failures.  Each round trip to the store can fail (connection    *)
(* lost, timeout); fault records that the request met such a failure.      *)
(*                                                                         *)
(* Exec fails: the error takes the same branch as any other Exec error.    *)
(***************************************************************************)
handleTransactionsExecFails(r, id, body) ==
    /\ pc[r] = "idle"
    /\ clientExists(id)
    /\ ValidateRequest(body)
    /\ Finish(r, id, body, ExecStatus("StorageUnavailable"))
    /\ fault' = [fault EXCEPT ![r] = TRUE]
    /\ dbCalls' = dbCalls + 1
    /\ UNCHANGED <<clientes, transacoes, now, resp, cursor, extrato,
                   postApply>>

(***************************************************************************)
(* The balance read fails: the error of row.Scan is dropped, response      *)
(* keeps the zero value of Balance and is sent as a success.               *)
(***************************************************************************)
ScanBalanceFailed(response) == [status |-> 200, body |-> response]

handleTransactionsReadFails(r) ==
    /\ pc[r] = "inserted"
    /\ resp' = [resp EXCEPT ![r] = ScanBalanceFailed(NoBody).body]
    /\ status' = [status EXCEPT ![r] = ScanBalanceFailed(NoBody).status]
    /\ pc' = [pc EXCEPT ![r] = "done"]
    /\ fault' = [fault EXCEPT ![r] = TRUE]
    /\ dbCalls' = dbCalls + 1
    /\ UNCHANGED <<clientes, transacoes, now, req, cursor, extrato,
                   postApply>>

(***************************************************************************)
(* handleTransactionLog: the status each failing round trip ends with.     *)
(* Query fails: 422.  The balance QueryRow fails: 500.  rows.Scan of a     *)
(* result row fails: 400.                                                  *)
(***************************************************************************)
LogFailureStatus(step) ==
    CASE step = "query" -> 422
      [] step = "balance" -> 500
      [] OTHER -> 400

handleTransactionLogQueryFails(r, id) ==
    /\ pc[r] = "idle"
    /\ clientExists(id)
    /\ req' = [req EXCEPT ![r] = [NoReq EXCEPT !.kind = "log", !.id = id]]
    /\ pc' = [pc EXCEPT ![r] = "done"]
    /\ status' = [status EXCEPT ![r] = LogFailureStatus("query")]
    /\ fault' = [fault EXCEPT ![r] = TRUE]
    /\ dbCalls' = dbCalls + 1
    /\ UNCHANGED <<clientes, transacoes, now, resp, cursor, extrato,
                   postApply>>

handleTransactionLogBalanceFails(r) ==
    /\ pc[r] = "queried"
    /\ pc' = [pc EXCEPT ![r] = "done"]
    /\ status' = [status EXCEPT ![r] = LogFailureStatus("balance")]
    /\ fault' = [fault EXCEPT ![r] = TRUE]
    /\ dbCalls' = dbCalls + 1
    /\ UNCHANGED <<clientes, transacoes, now, req, resp, cursor, extrato,
                   postApply>>

handleTransactionLogScanFails(r) ==
    /\ pc[r] = "queried"
    /\ cursor[r] # <<>>
    /\ pc' = [pc EXCEPT ![r] = "done"]
    /\ status' = [status EXCEPT ![r] = LogFailureStatus("scan")]
    /\ fault' = [fault EXCEPT ![r] = TRUE]
    /\ dbCalls' = dbCalls + 1
    /\ UNCHANGED <<clientes, transacoes, now, req, resp, cursor, extrato,
                   postApply>>

(***************************************************************************)
(* The result stream breaks after n rows: rows.Next returns false,         *)
(* rows.Err is not looked at, and the n rows read so far are sent.         *)
(***************************************************************************)
handleTransactionLogRowsCut(r, n) ==
    /\ pc[r] = "queried"
    /\ n < Len(cursor[r])
    /\ extrato' = [extrato EXCEPT ![r] =
           [Total |-> clientes[req[r].id].saldo,
            Limite |-> clientes[req[r].id].limite,
            DataExtrato |-> now,
            UltimasTransacoes |-> [i \in 1..n |-> ScanRow(cursor[r][i])]]]
    /\ status' = [status EXCEPT ![r] = 200]
    /\ pc' = [pc EXCEPT ![r] = "done"]
    /\ fault' = [fault EXCEPT ![r] = TRUE]
    /\ dbCalls' = dbCalls + 1
    /\ UNCHANGED <<clientes, transacoes, now, req, resp, cursor, postApply>>

(***************************************************************************)
(* Request inputs.                                                         *)
(***************************************************************************)
Body(v, t, d) == [valorKind |-> "int", valor |-> v, tipo |-> t,
                  descricao |-> d]

Ids == {1, 2}

Bodies == {Body(400, "d", Rep(5, 1)), Body(500, "d", Rep(5, 1)),
           Body(500, "c", Rep(5, 1))}

AllIds == {0, 1, 5, 6}

Descricoes == {Rep(n, w) : n \in {0, 1, 10, 11}, w \in {1, 2}}

AllBodies ==
    {[valorKind |-> k, valor |-> v, tipo |-> t, descricao |-> d] :
        k \in {"int", "frac"}, v \in {0 - 2000, 0, 500},
        t \in {"c", "d", "x"}, d \in Descricoes}

LogBodies == {Body(1, "c", Rep(1, 1))}

(***************************************************************************)
(* Spec: NumReqs concurrent transaction submissions with well-formed       *)
(* bodies for two clients.  Requests are numbered in their order of        *)
(* arrival; once arrived they interleave freely.                           *)
(***************************************************************************)
NextToArrive(r) == \A q \in 1..(r - 1) : pc[q] # "idle"

Next ==
    \/ \E r \in Reqs, id \in Ids, body \in Bodies :
          NextToArrive(r) /\ handleTransactions(r, id, body)
    \/ \E r \in Reqs : handleTransactionsRead(r)

Spec == Init /\ [][Next]_vars

(***************************************************************************)
(* SpecV: request 1 carries any id and any body, request 2 a well-formed   *)
(* one, so that request 1 meets the store in different states.             *)
(***************************************************************************)
NextV ==
    \/ \E id \in AllIds, body \in AllBodies : handleTransactions(1, id, body)
    \/ \E id \in AllIds, peers \in PeerOrders :
          handleTransactionLog(1, id, peers)
    \/ \E id \in Ids, body \in Bodies : handleTransactions(2, id, body)
    \/ \E r \in {1, 2} : handleTransactionsRead(r)
    \/ handleTransactionLogBalance(1)

SpecV == Init /\ [][NextV]_vars

(***************************************************************************)
(* SpecLog: one connection submits credits for client 1 one after the      *)
(* other while the clock runs, another asks for the statement.             *)
(***************************************************************************)
NextLog ==
    \/ \E body \in LogBodies : handleTransactions(1, 1, body)
    \/ handleTransactionsRead(1)
    \/ Recycle(1)
    \/ Tick
    \/ \E peers \in PeerOrders : handleTransactionLog(2, 1, peers)
    \/ handleTransactionLogBalance(2)

SpecLog == Init /\ [][NextLog]_vars

(***************************************************************************)
(* SpecF: requests 1 and 2 submit transactions, request 3 asks for a       *)
(* statement, and every round trip to the store may fail.                  *)
(***************************************************************************)
NextF ==
    \/ \E r \in {1, 2}, id \in Ids, body \in Bodies :
          handleTransactions(r, id, body)
    \/ \E r \in {1, 2}, id \in Ids, body \in Bodies :
          handleTransactionsExecFails(r, id, body)
    \/ \E r \in {1, 2} : handleTransactionsRead(r)
    \/ \E r \in {1, 2} : handleTransactionsReadFails(r)
    \/ \E id \in Ids, peers \in PeerOrders : handleTransactionLog(3, id, peers)
    \/ \E id \in Ids : handleTransactionLogQueryFails(3, id)
    \/ handleTransactionLogBalance(3)
    \/ handleTransactionLogBalanceFails(3)
    \/ handleTransactionLogScanFails(3)
    \/ \E n \in 0..MaxCut : handleTransactionLogRowsCut(3, n)

SpecF == Init /\ [][NextF]_vars

(***************************************************************************)
(* SpecS: request 1 submits up to MaxWrites transactions for client 1 one  *)
(* after the other, requests 2 and 3 ask for the statement of client 1.    *)
(***************************************************************************)
RecycleWriter(r) == Len(transacoes) < MaxWrites /\ Recycle(r)

NextS ==
    \/ \E body \in Bodies : handleTransactions(1, 1, body)
    \/ handleTransactionsRead(1)
    \/ RecycleWriter(1)
    \/ \E r \in {2, 3}, peers \in PeerOrders :
          handleTransactionLog(r, 1, peers)
    \/ \E r \in {2, 3} : handleTransactionLogBalance(r)

SpecS == Init /\ [][NextS]_vars

(***************************************************************************)
(* Vocabulary of the properties.                                           *)
(***************************************************************************)
Known(id) == id \in DOMAIN clientes

Starts(r) == pc[r] = "idle" /\ pc'[r] # "idle"

StoreUnchanged == clientes' = clientes /\ transacoes' = transacoes

ValidAmount(body) == body.valorKind = "int" /\ body.valor > 0

ValidShape(body) ==
    /\ body.tipo \in {"c", "d"}
    /\ Len(body.descricao) >= 1
    /\ Len(body.descricao) <= 10

OverLimit(cl, id, body) ==
    body.tipo = "d" /\ cl[id].saldo - body.valor < 0 - cl[id].limite

RECURSIVE SumSigned(_)
SumSigned(rows) ==
    IF rows = <<>> THEN 0
    ELSE (IF Head(rows).tipo = "c" THEN Head(rows).valor
          ELSE 0 - Head(rows).valor) + SumSigned(Tail(rows))

Succeeded == {r \in Reqs : pc[r] = "done" /\ status[r] = 200}

(***************************************************************************)
(* C1.  In every reachable state every client's balance is at least minus  *)
(* its limit, whatever transaction submissions have been made.             *)
(***************************************************************************)
BalanceWithinLimit ==
    \A c \in DOMAIN clientes : clientes[c].saldo >= 0 - clientes[c].limite

(***************************************************************************)
(* C2.  A step that handles a valid debit of a known client whose balance  *)
(* minus the amount is below minus the limit ends the request with 422     *)
(* and leaves clientes and transacoes as they were.                        *)
(***************************************************************************)
DebitOverLimitRejected ==
    [][\A r \in Reqs :
         (/\ Starts(r)
          /\ req'[r].kind = "tx"
          /\ Known(req'[r].id)
          /\ ValidAmount(req'[r].body)
          /\ ValidShape(req'[r].body)
          /\ OverLimit(clientes, req'[r].id, req'[r].body))
         => (/\ pc'[r] = "done"
             /\ status'[r] = 422
             /\ StoreUnchanged)]_vars

DebitOverLimitRejectedWitness ==
    \E r \in Reqs :
        /\ pc[r] = "done"
        /\ status[r] = 422
        /\ req[r].kind = "tx"
        /\ req[r].body.tipo = "d"
        /\ clientes[req[r].id].saldo = 0 - 1000
        /\ Len(transacoes) = 2

(***************************************************************************)
(* C3.  When all NumReqs requests were concurrent debits of one amount A   *)
(* for one client with limit L and initial balance 0, NumReqs * A > L,     *)
(* then once all are answered exactly L \div A of them got 200, the others *)
(* 422, and the balance is -((L \div A) * A), which is at least -L.        *)
(***************************************************************************)
SameDebitRace(c, A) ==
    /\ A > 0
    /\ NumReqs * A > clientes[c].limite
    /\ \A r \in Reqs :
          /\ pc[r] = "done"
          /\ req[r].kind = "tx"
          /\ req[r].id = c
          /\ req[r].body.tipo = "d"
          /\ req[r].body.valor = A

RaceCommitsFloor ==
    \A c \in DOMAIN clientes :
        SameDebitRace(c, req[1].body.valor) =>
            LET A == req[1].body.valor
                k == clientes[c].limite \div A
            IN  /\ Cardinality(Succeeded) = k
                /\ \A r \in Reqs \ Succeeded : status[r] = 422
                /\ Len(transacoes) = k
                /\ clientes[c].saldo = 0 - (k * A)
                /\ clientes[c].saldo >= 0 - clientes[c].limite

RaceCommitsFloorWitness ==
    /\ SameDebitRace(2, 500)
    /\ Cardinality(Succeeded) = 1

(***************************************************************************)
(* C4.  The balance in a 200 response of a transaction submission is the   *)
(* client's balance right after that transaction was applied.              *)
(***************************************************************************)
ResponseIsPostApplyBalance ==
    \A r \in Reqs :
        (pc[r] = "done" /\ status[r] = 200 /\ req[r].kind = "tx")
            => resp[r].Saldo = postApply[r]

(***************************************************************************)
(* C5.  A step that applies a submission appends exactly one row, carrying *)
(* the request's amount, type, description and client, and moves that      *)
(* client's balance by +amount (credit) or -amount (debit); the answering  *)
(* step changes nothing in the store; and a debit of 500 for client 1      *)
(* (limit 1000) answered when the client's rows are k = 1 or 2 debits of   *)
(* 500 returns limit 1000 and balance -500 * k.                            *)
(***************************************************************************)
OnlyDebits500(rows) ==
    \A i \in 1..Len(rows) : rows[i].tipo = "d" /\ rows[i].valor = 500

SuccessAddsOneRow ==
    [][\A r \in Reqs :
         /\ (pc[r] = "idle" /\ pc'[r] = "inserted") =>
               LET id == req'[r].id
                   b == req'[r].body
                   n == Len(transacoes)
               IN  /\ Len(transacoes') = n + 1
                   /\ SubSeq(transacoes', 1, n) = transacoes
                   /\ transacoes'[n + 1].valor = b.valor
                   /\ transacoes'[n + 1].tipo = b.tipo
                   /\ transacoes'[n + 1].descricao = b.descricao
                   /\ transacoes'[n + 1].cliente_id = id
                   /\ clientes'[id].saldo = clientes[id].saldo
                         + (IF b.tipo = "c" THEN b.valor ELSE 0 - b.valor)
                   /\ \A c \in DOMAIN clientes \ {id} :
                         clientes'[c] = clientes[c]
         /\ (pc[r] = "inserted" /\ pc'[r] = "done") =>
               /\ status'[r] = 200
               /\ StoreUnchanged
               /\ \A k \in 1..2 :
                     (/\ req[r].id = 1
                      /\ req[r].body.tipo = "d"
                      /\ req[r].body.valor = 500
                      /\ Len(transacoes) = k
                      /\ WhereCliente(transacoes, 1) = transacoes
                      /\ OnlyDebits500(transacoes))
                     => resp'[r] = [Limite |-> 1000, Saldo |-> 0 - (500 * k)]
    ]_vars

SuccessAddsOneRowWitness ==
    \E r1, r2 \in Reqs :
        /\ pc[r1] = "done" /\ pc[r2] = "done"
        /\ req[r1].id = 1 /\ req[r2].id = 1
        /\ resp[r1] = [Limite |-> 1000, Saldo |-> 0 - 500]
        /\ resp[r2] = [Limite |-> 1000, Saldo |-> 0 - 1000]
        /\ Len(transacoes) = 2
        /\ OnlyDebits500(transacoes)

(***************************************************************************)
(* C6.  In every reachable state each client's balance is its initial      *)
(* balance plus the signed sum of the rows persisted for it.               *)
(***************************************************************************)
BalanceIsSumOfRows ==
    \A c \in DOMAIN clientes :
        clientes[c].saldo =
            SeedClientes[c].saldo + SumSigned(WhereCliente(transacoes, c))

BalanceIsSumOfRowsWitness ==
    /\ Len(transacoes) = 2
    /\ clientes[1].saldo = 0 - 400
    /\ clientes[2].saldo = 500

(***************************************************************************)
(* C7.  A step that handles a submission of a known client whose amount is *)
(* an integer <= 0 ends the request with 422 and leaves clientes and       *)
(* transacoes as they were.                                                *)
(***************************************************************************)
NonPositiveAmountRejected ==
    [][\A r \in Reqs :
         (/\ Starts(r)
          /\ req'[r].kind = "tx"
          /\ Known(req'[r].id)
          /\ req'[r].body.valorKind = "int"
          /\ req'[r].body.valor <= 0)
         => (/\ pc'[r] = "done"
             /\ status'[r] = 422
             /\ StoreUnchanged)]_vars

(***************************************************************************)
(* C8.  For a known client: a submission whose description has 0 or more   *)
(* than 10 code points, or whose type is neither "c" nor "d", ends with    *)
(* 422 without any store round trip; a submission with a description of 1  *)
(* or 10 code points, a valid type and a valid amount reaches the store,   *)
(* and is refused there only as a debit over the limit.                    *)
(***************************************************************************)
ShapeValidated ==
    [][\A r \in Reqs :
         (Starts(r) /\ req'[r].kind = "tx" /\ Known(req'[r].id)) =>
            LET id == req'[r].id
                b == req'[r].body
                n == Len(b.descricao)
            IN  /\ (n = 0 \/ n > 10 \/ b.tipo \notin {"c", "d"}) =>
                      /\ pc'[r] = "done"
                      /\ status'[r] = 422
                      /\ dbCalls' = dbCalls
                      /\ StoreUnchanged
                /\ (n \in {1, 10} /\ b.tipo \in {"c", "d"} /\ ValidAmount(b)) =>
                      /\ dbCalls' = dbCalls + 1
                      /\ IF OverLimit(clientes, id, b)
                         THEN status'[r] = 422
                         ELSE pc'[r] = "inserted"
    ]_vars

ShapeValidatedWitness ==
    \E r \in Reqs :
        /\ pc[r] = "done"
        /\ status[r] = 200
        /\ req[r].kind = "tx"
        /\ req[r].body.descricao = Rep(10, 2)
        /\ ByteLen(req[r].body.descricao) = 20

(***************************************************************************)
(* C9.  A step that handles a submission or a statement request whose      *)
(* client id is not a provisioned client ends the request with 404,        *)
(* whatever the body, without any store round trip or change.              *)
(***************************************************************************)
UnknownClientNotFound ==
    [][\A r \in Reqs :
         (Starts(r) /\ ~Known(req'[r].id)) =>
            /\ pc'[r] = "done"
            /\ status'[r] = 404
            /\ dbCalls' = dbCalls
            /\ StoreUnchanged]_vars

UnknownClientNotFoundWitness ==
    /\ pc[1] = "done"
    /\ status[1] = 404
    /\ req[1].kind = "tx"
    /\ req[1].id = 6
    /\ ValidAmount(req[1].body)
    /\ ValidShape(req[1].body)
    /\ Len(transacoes) = 1

(***************************************************************************)
(* C10.  The rows a statement request fetches are the client's rows, most  *)
(* recently inserted first, cut to the first 10: at most 10, the most      *)
(* recent ones, realizada_em non-increasing, equal realizada_em most       *)
(* recently inserted first.                                                *)
(***************************************************************************)
RECURSIVE Reverse(_)
Reverse(s) == IF s = <<>> THEN <<>> ELSE Reverse(Tail(s)) \o <<Head(s)>>

MostRecentFirst(txs, id) ==
    LET rows == Reverse(WhereCliente(txs, id))
    IN  SubSeq(rows, 1, IF Len(rows) < 10 THEN Len(rows) ELSE 10)

StatementMostRecentFirst ==
    [][\A r \in Reqs :
         (pc[r] = "idle" /\ pc'[r] = "queried") =>
            cursor'[r] = MostRecentFirst(transacoes, req'[r].id)]_vars

(***************************************************************************)
(* C11.  A statement step changes neither clientes nor transacoes, and two *)
(* answered statements of one client that both saw all the rows the        *)
(* client has now (fewer than 10), so that no transaction was committed    *)
(* since either was taken, carry the same balance, limit and list.         *)
(***************************************************************************)
StatementView(r) ==
    [Total |-> extrato[r].Total, Limite |-> extrato[r].Limite,
     UltimasTransacoes |-> extrato[r].UltimasTransacoes]

Answered(r) == pc[r] = "done" /\ status[r] = 200 /\ req[r].kind = "log"

QuietSince(r) ==
    /\ Len(cursor[r]) < 10
    /\ Len(cursor[r]) =
          Len(SelectSeq(transacoes, LAMBDA row : row.cliente_id = req[r].id))

RepeatedStatementsAgree ==
    \A a, b \in Reqs :
        (/\ Answered(a) /\ Answered(b)
         /\ req[a].id = req[b].id
         /\ QuietSince(a) /\ QuietSince(b))
        => StatementView(a) = StatementView(b)

StatementIdempotent ==
    [][/\ \A r \in Reqs :
            (req'[r].kind = "log" /\ pc'[r] # pc[r]) => StoreUnchanged
       /\ RepeatedStatementsAgree']_vars

(***************************************************************************)
(* C12.  A request that met a storage failure is answered with 500.        *)
(***************************************************************************)
StorageFailureIs500 ==
    \A r \in Reqs : (pc[r] = "done" /\ fault[r]) => status[r] = 500

(***************************************************************************)
(* C13.  A submission is handled once: from idle it is either applied      *)
(* (client known, shape valid; one row appended together with the balance  *)
(* update of that row) or ends rejected with 404 or 422 and the store      *)
(* unchanged; an applied request ends with 200; an ended request never     *)
(* moves again; and the store changes in no other step.                    *)
(***************************************************************************)
AppliedTogether(r) ==
    LET id == req'[r].id
        b == req'[r].body
        n == Len(transacoes)
    IN  /\ clientExists(id)
        /\ ValidShape(b)
        /\ Len(transacoes') = n + 1
        /\ SubSeq(transacoes', 1, n) = transacoes
        /\ clientes'[id].saldo - clientes[id].saldo =
              (IF transacoes'[n + 1].tipo = "c" THEN transacoes'[n + 1].valor
               ELSE 0 - transacoes'[n + 1].valor)

RECURSIVE SumSignedScanned(_)
SumSignedScanned(list) ==
    IF list = <<>> THEN 0
    ELSE (IF Head(list).Tipo = "c" THEN Head(list).Valor
          ELSE 0 - Head(list).Valor) + SumSignedScanned(Tail(list))

StatementOneView ==
    \A r \in Reqs :
        (Answered(r) /\ ~fault[r] /\ Len(extrato[r].UltimasTransacoes) < 10)
        => extrato[r].Total =
              SeedClientes[req[r].id].saldo
                 + SumSignedScanned(extrato[r].UltimasTransacoes)

(***************************************************************************)
(* C15.  Every step keeps the rows persisted so far as they are, in place, *)
(* and keeps every client's limit: transacoes only grows at its end and    *)
(* the limits are those of the seed data.                                  *)
(***************************************************************************)
AppendOnly ==
    [][/\ Len(transacoes') >= Len(transacoes)
       /\ SubSeq(transacoes', 1, Len(transacoes)) = transacoes
       /\ DOMAIN clientes' = DOMAIN clientes
       /\ \A c \in DOMAIN clientes :
             /\ clientes'[c].limite = clientes[c].limite
             /\ clientes'[c].limite = SeedLimite[c]]_vars

AppendOnlyWitness ==
    /\ Len(transacoes) = 11
    /\ transacoes[1].realizada_em = 1
    /\ transacoes[11].realizada_em = 2
    /\ clientes[1].saldo = 11
    /\ pc[2] = "done"

(***************************************************************************)
(* C16.  The row a submission for client X appends has X as cliente_id,    *)
(* and that step leaves the balance and the rows of every other client as  *)
(* they were; the rows a statement request for client X fetches all have   *)
(* X as cliente_id.                                                        *)
(***************************************************************************)
RowsOf(txs, c) == SelectSeq(txs, LAMBDA row : row.cliente_id = c)

OwnershipKept ==
    [][\A r \in Reqs :
         /\ (pc[r] = "idle" /\ pc'[r] = "inserted") =>
               /\ transacoes'[Len(transacoes')].cliente_id = req'[r].id
               /\ \A c \in DOMAIN clientes \ {req'[r].id} :
                     /\ clientes'[c] = clientes[c]
                     /\ RowsOf(transacoes', c) = RowsOf(transacoes, c)
         /\ (pc[r] = "idle" /\ pc'[r] = "queried") =>
               /\ \A i \in 1..Len(cursor'[r]) :
                     cursor'[r][i].cliente_id = req'[r].id
               /\ Len(cursor'[r]) = Len(RowsOf(transacoes, req'[r].id))
    ]_vars

OwnershipKeptWitness ==
    /\ pc[2] = "done" /\ status[2] = 200 /\ req[2].id = 2
    /\ Len(transacoes) = 1
    /\ transacoes[1].cliente_id = 2
    /\ Answered(1)
    /\ req[1].id = 1
    /\ extrato[1].UltimasTransacoes = <<>>
    /\ extrato[1].Total = 0

(***************************************************************************)
(* C17.  A step that handles a valid credit of a known client applies it:  *)
(* the request is not ended with 422, one row is appended and the balance  *)
(* rises by the amount, whatever the balance and the limit are.            *)
(***************************************************************************)
ValidCreditCommits ==
    [][\A r \in Reqs :
         (/\ Starts(r)
          /\ req'[r].kind = "tx"
          /\ Known(req'[r].id)
          /\ ValidAmount(req'[r].body)
          /\ ValidShape(req'[r].body)
          /\ req'[r].body.tipo = "c")
         => (/\ pc'[r] = "inserted"
             /\ status'[r] # 422
             /\ Len(transacoes') = Len(transacoes) + 1
             /\ clientes'[req'[r].id].saldo =
                   clientes[req'[r].id].saldo + req'[r].body.valor)]_vars

ValidCreditCommitsWitness ==
    /\ Len(transacoes) = 3
    /\ transacoes[3].tipo = "c"
    /\ transacoes[3].cliente_id = 2
    /\ clientes[2].saldo = 0 - 300
    /\ \A r \in Reqs : pc[r] = "done" /\ status[r] = 200

(***************************************************************************)
(* C18.  A step that answers a submission with 200 reports the client's    *)
(* provisioned limit and the balance the client has at that step, a point  *)
(* after the insert; in particular not limit 0 and balance 0 after a       *)
(* failed balance read.                                                    *)
(***************************************************************************)
SuccessReportsStore ==
    [][\A r \in Reqs :
         (pc[r] = "inserted" /\ pc'[r] = "done" /\ status'[r] = 200) =>
            /\ resp'[r].Limite = SeedLimite[req[r].id]
            /\ resp'[r].Saldo = clientes[req[r].id].saldo]_vars

====
